---- MODULE Spec2Model ----
(***************************************************************************)
(* Model of rpg-dm-tools/utils/svg.py: the static room table, the          *)
(* coordinate mapper, the primitive renderers and render_map_svg.          *)
(*                                                                         *)
(* Python strings that are only compared (identifiers, direction labels,   *)
(* colours) are TLA+ strings.  Strings whose characters are inspected (the *)
(* display name of a room) are sequences of one-character strings.         *)
(* An SVG fragment is a record holding the attribute values the code       *)
(* formats into the fragment's text; svg_parts is the list of fragments.   *)
(***************************************************************************)
EXTENDS Integers, Sequences, FiniteSets

VARIABLES
    rooms,          \* render_map_svg argument: ordered mapping room_id -> room_data
    current_room,   \* render_map_svg argument
    pc,             \* "ready", "done" (returned) or "raised" (exception)
    svg_parts,      \* render_map_svg's svg_parts list
    call,           \* a direct call of one primitive renderer: its arguments
    ret             \* what that call returned (None before it ran)

vars == <<rooms, current_room, pc, svg_parts, call, ret>>

None == [kind |-> "none"]

----------------------------------------------------------------------------
(* Module constants                                                        *)

ROOM_POSITIONS ==
    [ tavern       |-> <<2, 3, 0>>,
      cellar       |-> <<2, 3, -1>>,
      street       |-> <<2, 2, 0>>,
      market       |-> <<3, 2, 0>>,
      blacksmith   |-> <<3, 1, 0>>,
      temple       |-> <<1, 2, 0>>,
      village_gate |-> <<2, 1, 0>>,
      forest_path  |-> <<2, 0, 0>> ]

CELL_SIZE == 100
ROOM_WIDTH == 80
ROOM_HEIGHT == 50
PADDING == 60

UNDERGROUND_OFFSET == 15
LABEL_MAX == 12
LABEL_KEEP == 11

----------------------------------------------------------------------------
(* Strings as character sequences                                          *)

LowerCase == << "a","b","c","d","e","f","g","h","i","j","k","l","m",
                "n","o","p","q","r","s","t","u","v","w","x","y","z" >>
UpperCase == << "A","B","C","D","E","F","G","H","I","J","K","L","M",
                "N","O","P","Q","R","S","T","U","V","W","X","Y","Z" >>

Range(s) == { s[i] : i \in DOMAIN s }

IndexOf(s, c) == CHOOSE i \in DOMAIN s : s[i] = c

\* str.iscased for one character
IsCased(c) == c \in Range(LowerCase) \cup Range(UpperCase)

ToUpper(c) == IF c \in Range(LowerCase) THEN UpperCase[IndexOf(LowerCase, c)] ELSE c

ToLower(c) == IF c \in Range(UpperCase) THEN LowerCase[IndexOf(UpperCase, c)] ELSE c

\* name.replace("_", " ")
ReplaceUnderscore(s) == [ i \in DOMAIN s |-> IF s[i] = "_" THEN " " ELSE s[i] ]

\* str.title(): a cased character is upper-cased when the character before it
\* is not cased (or there is none) and lower-cased otherwise.
Title(s) ==
    [ i \in DOMAIN s |->
        IF i > 1 /\ IsCased(s[i - 1]) THEN ToLower(s[i]) ELSE ToUpper(s[i]) ]

Ellipsis == << ".", ".", "." >>

\* The identifiers of the model, spelled out.
Spell(id) ==
    CASE id = "tavern"       -> << "t","a","v","e","r","n" >>
      [] id = "cellar"       -> << "c","e","l","l","a","r" >>
      [] id = "street"       -> << "s","t","r","e","e","t" >>
      [] id = "market"       -> << "m","a","r","k","e","t" >>
      [] id = "blacksmith"   -> << "b","l","a","c","k","s","m","i","t","h" >>
      [] id = "temple"       -> << "t","e","m","p","l","e" >>
      [] id = "village_gate" -> << "v","i","l","l","a","g","e","_","g","a","t","e" >>
      [] id = "forest_path"  -> << "f","o","r","e","s","t","_","p","a","t","h" >>
      [] id = "void"         -> << "v","o","i","d" >>

----------------------------------------------------------------------------
(* get_room_center                                                         *)

GetRoomCenter_NoOffset(room_id) ==
    IF room_id \notin DOMAIN ROOM_POSITIONS
    THEN <<0, 0>>
    ELSE LET pos == ROOM_POSITIONS[room_id]
         IN  <<PADDING + pos[1] * CELL_SIZE, PADDING + pos[2] * CELL_SIZE>>

get_room_center(room_id) ==
    IF room_id \notin DOMAIN ROOM_POSITIONS
    THEN <<0, 0>>
    ELSE LET pos   == ROOM_POSITIONS[room_id]
             grid_x == pos[1]
             grid_y == pos[2]
             level  == pos[3]
             x == PADDING + grid_x * CELL_SIZE
             y == PADDING + grid_y * CELL_SIZE
         IN  IF level < 0
             THEN <<x + UNDERGROUND_OFFSET, y + UNDERGROUND_OFFSET>>
             ELSE <<x, y>>

----------------------------------------------------------------------------
(* render_room                                                             *)

DisplayName_TruncateAt11(name) ==
    LET display_name == Title(ReplaceUnderscore(name))
    IN  IF Len(display_name) > LABEL_KEEP
        THEN SubSeq(display_name, 1, LABEL_KEEP) \o Ellipsis
        ELSE display_name

\* the label of render_room
DisplayName(name) ==
    LET display_name == Title(ReplaceUnderscore(name))
    IN  IF Len(display_name) > LABEL_MAX
        THEN SubSeq(display_name, 1, LABEL_KEEP) \o Ellipsis
        ELSE display_name

render_room(room_id, name, is_current, level) ==
    LET c == get_room_center(room_id)
        x == c[1]
        y == c[2]
    IN  [ kind         |-> "box",
          room         |-> room_id,
          rect_x       |-> x - ROOM_WIDTH \div 2,
          rect_y       |-> y - ROOM_HEIGHT \div 2,
          width        |-> ROOM_WIDTH,
          height       |-> ROOM_HEIGHT,
          fill         |-> IF is_current THEN "#4a9eff" ELSE "#e8e8e8",
          stroke       |-> IF is_current THEN "#2563eb" ELSE "#666",
          stroke_width |-> IF is_current THEN "3" ELSE "2",
          dash         |-> IF level < 0 THEN "5,3" ELSE "",
          text_x       |-> x,
          text_y       |-> y + 5,
          text_color   |-> IF is_current THEN "#ffffff" ELSE "#333",
          font_weight  |-> IF is_current THEN "bold" ELSE "normal",
          label        |-> DisplayName(name) ]

----------------------------------------------------------------------------
(* render_connection                                                       *)

\* the (dx, dy) added to the source endpoint for a direction label
FromOffset(direction) ==
    CASE direction = "north" -> <<0, -(ROOM_HEIGHT \div 2)>>
      [] direction = "south" -> <<0, ROOM_HEIGHT \div 2>>
      [] direction = "east"  -> <<ROOM_WIDTH \div 2, 0>>
      [] direction = "west"  -> <<-(ROOM_WIDTH \div 2), 0>>
      [] direction = "down"  -> <<ROOM_WIDTH \div 2 - 10, ROOM_HEIGHT \div 2>>
      [] direction = "up"    -> <<ROOM_WIDTH \div 2 - 10, -(ROOM_HEIGHT \div 2)>>
      [] OTHER               -> <<0, 0>>

\* the (dx, dy) added to the target endpoint for a direction label
ToOffset(direction) ==
    CASE direction = "north" -> <<0, ROOM_HEIGHT \div 2>>
      [] direction = "south" -> <<0, -(ROOM_HEIGHT \div 2)>>
      [] direction = "east"  -> <<-(ROOM_WIDTH \div 2), 0>>
      [] direction = "west"  -> <<ROOM_WIDTH \div 2, 0>>
      [] direction = "down"  -> <<ROOM_WIDTH \div 2 - 10, -(ROOM_HEIGHT \div 2)>>
      [] direction = "up"    -> <<ROOM_WIDTH \div 2 - 10, ROOM_HEIGHT \div 2>>
      [] OTHER               -> <<0, 0>>

RenderConnection_VerticalPastEdge(from_room, to_room, direction) ==
    LET f == get_room_center(from_room)
        t == get_room_center(to_room)
        vertical == direction \in {"up", "down"}
        shift == IF vertical THEN 20 ELSE 0
    IN  [ kind      |-> "line",
          from_room |-> from_room,
          to_room   |-> to_room,
          direction |-> direction,
          x1        |-> f[1] + FromOffset(direction)[1] + shift,
          y1        |-> f[2] + FromOffset(direction)[2],
          x2        |-> t[1] + ToOffset(direction)[1] + shift,
          y2        |-> t[2] + ToOffset(direction)[2],
          dash      |-> IF vertical THEN "4,2" ELSE "" ]

render_connection(from_room, to_room, direction) ==
    LET f == get_room_center(from_room)
        t == get_room_center(to_room)
        is_vertical == direction \in {"up", "down"}
    IN  [ kind      |-> "line",
          from_room |-> from_room,
          to_room   |-> to_room,
          direction |-> direction,
          x1        |-> f[1] + FromOffset(direction)[1],
          y1        |-> f[2] + FromOffset(direction)[2],
          x2        |-> t[1] + ToOffset(direction)[1],
          y2        |-> t[2] + ToOffset(direction)[2],
          dash      |-> IF is_vertical THEN "4,2" ELSE "" ]

----------------------------------------------------------------------------
(* render_vertical_indicator                                               *)

Polygon(tip_x, tip_y, base_dy) ==
    [ points |-> << <<tip_x, tip_y>>,
                    <<tip_x - 5, tip_y + base_dy>>,
                    <<tip_x + 5, tip_y + base_dy>> >>,
      fill   |-> "#666" ]

RenderVerticalIndicator_UpOnly(room_id, has_up, has_down) ==
    LET c == get_room_center(room_id)
        ind_x == c[1] + ROOM_WIDTH \div 2 - 8
    IN  IF has_up
        THEN << Polygon(ind_x, c[2] - ROOM_HEIGHT \div 2 + 8, 8) >>
        ELSE << >>

\* the polygons of the returned text, in order; << >> is the empty string
render_vertical_indicator(room_id, has_up, has_down) ==
    IF ~has_up /\ ~has_down
    THEN << >>
    ELSE LET c == get_room_center(room_id)
             x == c[1]
             y == c[2]
             ind_x == x + ROOM_WIDTH \div 2 - 8
             up   == IF has_up
                     THEN << Polygon(ind_x, y - ROOM_HEIGHT \div 2 + 8, 8) >>
                     ELSE << >>
             down == IF has_down
                     THEN << Polygon(ind_x, y + ROOM_HEIGHT \div 2 - 8, -8) >>
                     ELSE << >>
         IN  up \o down

----------------------------------------------------------------------------
(* render_map_svg                                                          *)

Max(S) == CHOOSE m \in S : \A n \in S : n <= m

CanvasWidth ==
    PADDING * 2 + (Max({ ROOM_POSITIONS[k][1] : k \in DOMAIN ROOM_POSITIONS }) + 1) * CELL_SIZE

CanvasHeight ==
    PADDING * 2 + (Max({ ROOM_POSITIONS[k][2] : k \in DOMAIN ROOM_POSITIONS }) + 1) * CELL_SIZE

Blank == [ kind |-> "blank" ]

Comment(text) == [ kind |-> "comment", text |-> text ]

\* the initial svg_parts list
Header ==
    << [ kind |-> "svg_open", width |-> CanvasWidth, height |-> CanvasHeight ],
       Comment("Background"),
       [ kind |-> "background", width |-> CanvasWidth, height |-> CanvasHeight,
         fill |-> "#f5f5f5" ],
       Blank,
       Comment("Connections") >>

\* Python's order on the identifiers of the model (str comparison)
IdOrder == << "blacksmith", "cellar", "forest_path", "market", "street",
              "tavern", "temple", "village_gate", "void" >>

StrLeq(a, b) == IndexOf(IdOrder, a) <= IndexOf(IdOrder, b)

ConnKey_Ordered(room_id, target_room) == <<room_id, target_room>>

\* conn_key = tuple(sorted([room_id, target_room]))
ConnKey(room_id, target_room) ==
    IF StrLeq(room_id, target_room)
    THEN <<room_id, target_room>>
    ELSE <<target_room, room_id>>

\* "if room_id not in ROOM_POSITIONS: continue"
SourceSkipped(room_id) == room_id \notin DOMAIN ROOM_POSITIONS

TargetSkipped_Never(target_room) == FALSE

\* "if target_room not in ROOM_POSITIONS: continue"
TargetSkipped(target_room) == target_room \notin DOMAIN ROOM_POSITIONS

\* A room_data's "exits" entry is a record [kind, items]:
\*   kind "missing": room_data has no "exits" key
\*   kind "map":     a dict, items its (direction, target) pairs in dict order
\*   kind "null":    None
\*   kind "list":    a list, items its elements
EmptyDict == [ kind |-> "map", items |-> << >> ]

\* room_data.get("exits", {})
GetExits(room_data) ==
    IF room_data.exits.kind = "missing" THEN EmptyDict ELSE room_data.exits

\* whether exits.items() exists (a dict has it; None and a list raise AttributeError)
HasItemsMethod(exits) == exits.kind = "map"

ExitItems_Reversed(exits) ==
    [ j \in DOMAIN exits.items |-> exits.items[Len(exits.items) + 1 - j] ]

\* exits.items(): the pairs in dict order
ExitItems(exits) == exits.items

\* whether `key in exits` is defined (None raises TypeError)
SupportsIn(exits) == exits.kind # "null"

\* key in exits: a dict tests its keys, a list its elements
Contains(key, exits) ==
    IF exits.kind = "map"
    THEN \E j \in DOMAIN exits.items : exits.items[j][1] = key
    ELSE \E j \in DOMAIN exits.items : exits.items[j] = key

IsCurrent_Always(room_id, current) == TRUE

\* is_current = room_id == current_room
IsCurrent(room_id, current) == room_id = current

\* the inner loop "for direction, target_room in exits.items()", from pair j on;
\* st = [drawn |-> drawn_connections, parts |-> svg_parts, raised |-> BOOLEAN]
RECURSIVE ExitLoop(_, _, _, _)
ExitLoop(room_id, items, j, st) ==
    IF j > Len(items)
    THEN st
    ELSE LET direction   == items[j][1]
             target_room == items[j][2]
             conn_key    == ConnKey(room_id, target_room)
         IN  IF TargetSkipped(target_room)
             THEN ExitLoop(room_id, items, j + 1, st)
             ELSE IF conn_key \in st.drawn
             THEN ExitLoop(room_id, items, j + 1, st)
             ELSE ExitLoop(room_id, items, j + 1,
                    [ st EXCEPT
                        !.drawn = @ \cup {conn_key},
                        !.parts = Append(@, render_connection(room_id, target_room,
                                                              direction)) ])

\* the first loop "for room_id, room_data in rooms.items()", from room i on
RECURSIVE ConnectionLoop(_, _, _)
ConnectionLoop(rs, i, st) ==
    IF i > Len(rs)
    THEN st
    ELSE LET room_id == rs[i].id
             exits   == GetExits(rs[i])
         IN  IF SourceSkipped(room_id)
             THEN ConnectionLoop(rs, i + 1, st)
             ELSE IF ~HasItemsMethod(exits)
             THEN [ st EXCEPT !.raised = TRUE ]
             ELSE ConnectionLoop(rs, i + 1, ExitLoop(room_id, ExitItems(exits), 1, st))

Indicator(room_id, polygons) ==
    [ kind |-> "indicator", room |-> room_id, polygons |-> polygons ]

RoomsStep_BoxesFirst(parts, boxes) == boxes \o parts

\* svg_parts once the room loop is over: the fragments of the first loop, the
\* blank line, the comment, and then the room loop's own fragments
RoomsStep(parts, boxes) == parts \o boxes

\* the second loop "for room_id, room_data in rooms.items()", from room i on;
\* st = [parts |-> the fragments appended by this loop, raised |-> BOOLEAN]
RECURSIVE RoomLoop(_, _, _, _)
RoomLoop(rs, current, i, st) ==
    IF i > Len(rs)
    THEN st
    ELSE LET room_id == rs[i].id
         IN  IF SourceSkipped(room_id)
             THEN RoomLoop(rs, current, i + 1, st)
             ELSE LET level      == ROOM_POSITIONS[room_id][3]
                      is_current == IsCurrent(room_id, current)
                      box        == render_room(room_id, Spell(room_id), is_current, level)
                      exits      == GetExits(rs[i])
                  IN  IF ~SupportsIn(exits)
                      THEN [ parts |-> Append(st.parts, box), raised |-> TRUE ]
                      ELSE LET has_up    == Contains("up", exits)
                               has_down  == Contains("down", exits)
                               indicator == render_vertical_indicator(room_id, has_up,
                                                                      has_down)
                           IN  RoomLoop(rs, current, i + 1,
                                 [ st EXCEPT !.parts =
                                     IF indicator # << >>
                                     THEN Append(Append(@, box),
                                                 Indicator(room_id, indicator))
                                     ELSE Append(@, box) ])

Legend(current) ==
    [ kind |-> "legend", x |-> 10, y |-> CanvasHeight - 10,
      text |-> Title(ReplaceUnderscore(Spell(current))) ]

SvgClose == [ kind |-> "svg_close" ]

\* render_map_svg(rs, current): [parts |-> svg_parts when the call ended,
\*                               raised |-> whether it ended by an exception]
render_map_svg(rs, current) ==
    LET conns == ConnectionLoop(rs, 1,
                   [ drawn |-> {}, parts |-> Header, raised |-> FALSE ])
        mid   == conns.parts \o << Blank, Comment("Rooms") >>
        boxes == RoomLoop(rs, current, 1, [ parts |-> << >>, raised |-> FALSE ])
        body  == RoomsStep(mid, boxes.parts)
    IN  IF conns.raised
        THEN [ parts |-> conns.parts, raised |-> TRUE ]
        ELSE IF boxes.raised
        THEN [ parts |-> body, raised |-> TRUE ]
        ELSE [ parts  |-> body \o << Blank, Comment("Legend"), Legend(current), SvgClose >>,
               raised |-> FALSE ]

----------------------------------------------------------------------------
(* Inputs of render_map_svg                                                *)

\* the largest total size of a supplied map: one per exit, and one per
\* "exits" entry that is missing or is not a dict
MaxExits == 2

InputRoomIds == { "tavern", "street", "void" }

TargetIds == { "tavern", "street", "village_gate", "void" }

Directions == { "north", "south", "up", "down" }

CurrentIds == { "tavern", "void" }

\* the item lists of the dicts with n exits: directions are dict keys, so distinct
RECURSIVE ItemSeqs(_)
ItemSeqs(n) ==
    IF n = 0
    THEN { << >> }
    ELSE UNION { { Append(s, <<d, t>>) :
                     d \in Directions \ { s[j][1] : j \in DOMAIN s }, t \in TargetIds } :
                 s \in ItemSeqs(n - 1) }

Malformed ==
    { [ kind |-> "missing", items |-> << >> ],
      [ kind |-> "null",    items |-> << >> ],
      [ kind |-> "list",    items |-> << >> ] }

Weight(exits) == IF exits.kind = "map" THEN Len(exits.items) ELSE 1

ExitsOfWeight(w) ==
    { [ kind |-> "map", items |-> s ] : s \in ItemSeqs(w) }
        \cup (IF w = 1 THEN Malformed ELSE {})

\* the orders in which n distinct room ids can be supplied
RECURSIVE IdSeqs(_)
IdSeqs(n) ==
    IF n = 0
    THEN { << >> }
    ELSE { Append(t[1], t[2]) :
             t \in { t \in IdSeqs(n - 1) \X InputRoomIds : t[2] \notin Range(t[1]) } }

\* the ways to split a total size of at most `budget` over n rooms
RECURSIVE WeightSeqs(_, _)
WeightSeqs(n, budget) ==
    IF n = 0
    THEN { << >> }
    ELSE UNION { { Append(ws, w) : ws \in WeightSeqs(n - 1, budget - w) } : w \in 0 .. budget }

\* the ordered mappings with the room ids ids[1..n] and exits of sizes ws[1..n]
RECURSIVE RoomSeqs(_, _, _)
RoomSeqs(ids, ws, n) ==
    IF n = 0
    THEN { << >> }
    ELSE { Append(rs, [ id |-> ids[n], exits |-> e ]) :
             rs \in RoomSeqs(ids, ws, n - 1), e \in ExitsOfWeight(ws[n]) }

RoomCounts == 0 .. Cardinality(InputRoomIds)

Shapes == UNION { IdSeqs(n) \X WeightSeqs(n, MaxExits) : n \in RoomCounts }

----------------------------------------------------------------------------
(* Inputs of the primitive renderers called directly                       *)

\* the largest number of words a display name is made of
MaxWords == 4

Words == { << "a" >>, << "B", "c" >>, << "_" >>, << "x", "1" >>,
           << "V", "I", "L", "L", "A", "G", "E" >> }

RECURSIVE NamesOf(_)
NamesOf(n) ==
    IF n = 0 THEN { << >> } ELSE { s \o w : s \in NamesOf(n - 1), w \in Words }

AllIds == DOMAIN ROOM_POSITIONS \cup { "void" }

Names == UNION { NamesOf(n) : n \in 0 .. MaxWords } \cup { Spell(id) : id \in AllIds }

AllDirections == { "north", "south", "east", "west", "up", "down", "northeast" }

NoArgs ==
    [ op |-> "none", room_id |-> "", to_room |-> "", direction |-> "", name |-> << >>,
      is_current |-> FALSE, level |-> 0, has_up |-> FALSE, has_down |-> FALSE ]

Calls ==
    { [ NoArgs EXCEPT !.op = "get_room_center", !.room_id = r ] : r \in AllIds }
    \cup
    { [ NoArgs EXCEPT !.op = "render_connection", !.room_id = r, !.to_room = t,
                      !.direction = d ] :
        r \in AllIds, t \in AllIds, d \in AllDirections }
    \cup
    { [ NoArgs EXCEPT !.op = "render_room", !.room_id = r, !.name = n,
                      !.is_current = c, !.level = l ] :
        r \in { "tavern", "cellar", "void" }, n \in Names, c \in BOOLEAN, l \in { 0, -1 } }
    \cup
    { [ NoArgs EXCEPT !.op = "render_vertical_indicator", !.room_id = r,
                      !.has_up = u, !.has_down = d ] :
        r \in AllIds, u \in BOOLEAN, d \in BOOLEAN }

----------------------------------------------------------------------------
(* One call of render_map_svg                                              *)

Init ==
    /\ \E shape \in Shapes :
         rooms \in RoomSeqs(shape[1], shape[2], Len(shape[1]))
    /\ current_room \in CurrentIds
    /\ pc = "ready"
    /\ svg_parts = << >>
    /\ call = NoArgs
    /\ ret = None

RenderMapSvg ==
    /\ pc = "ready"
    /\ call.op = "none"
    /\ LET r == render_map_svg(rooms, current_room)
       IN  /\ svg_parts' = r.parts
           /\ pc' = IF r.raised THEN "raised" ELSE "done"
    /\ UNCHANGED <<rooms, current_room, call, ret>>

Next == RenderMapSvg

Spec == Init /\ [][Next]_vars

----------------------------------------------------------------------------
(* One direct call of a primitive renderer                                 *)

InitPrim ==
    /\ rooms = << >>
    /\ current_room = ""
    /\ pc = "ready"
    /\ svg_parts = << >>
    /\ call \in Calls
    /\ ret = None

CallGetRoomCenter ==
    /\ pc = "ready"
    /\ call.op = "get_room_center"
    /\ ret' = get_room_center(call.room_id)
    /\ pc' = "done"
    /\ UNCHANGED <<rooms, current_room, svg_parts, call>>

CallRenderRoom ==
    /\ pc = "ready"
    /\ call.op = "render_room"
    /\ ret' = render_room(call.room_id, call.name, call.is_current, call.level)
    /\ pc' = "done"
    /\ UNCHANGED <<rooms, current_room, svg_parts, call>>

CallRenderConnection ==
    /\ pc = "ready"
    /\ call.op = "render_connection"
    /\ ret' = render_connection(call.room_id, call.to_room, call.direction)
    /\ pc' = "done"
    /\ UNCHANGED <<rooms, current_room, svg_parts, call>>

CallRenderVerticalIndicator ==
    /\ pc = "ready"
    /\ call.op = "render_vertical_indicator"
    /\ ret' = render_vertical_indicator(call.room_id, call.has_up, call.has_down)
    /\ pc' = "done"
    /\ UNCHANGED <<rooms, current_room, svg_parts, call>>

NextPrim ==
    \/ CallGetRoomCenter
    \/ CallRenderRoom
    \/ CallRenderConnection
    \/ CallRenderVerticalIndicator

SpecPrim == InitPrim /\ [][NextPrim]_vars

----------------------------------------------------------------------------
(* Reading the input and the output of render_map_svg                      *)

Known == DOMAIN ROOM_POSITIONS

Supplied(id) == \E i \in DOMAIN rooms : rooms[i].id = id

\* the exits of the i-th supplied room as the caller wrote them
SuppliedItems(i) ==
    IF rooms[i].exits.kind = "map" THEN rooms[i].exits.items ELSE << >>

SuppliedKeys(i) == { SuppliedItems(i)[j][1] : j \in DOMAIN SuppliedItems(i) }

\* the exits <<i, j>> whose source is a known room and whose target is known
DrawableExits ==
    { e \in UNION { { <<i, j>> : j \in DOMAIN SuppliedItems(i) } : i \in DOMAIN rooms } :
        /\ rooms[e[1]].id \in Known
        /\ SuppliedItems(e[1])[e[2]][2] \in Known }

ExitSource(e) == rooms[e[1]].id
ExitDirection(e) == SuppliedItems(e[1])[e[2]][1]
ExitTarget(e) == SuppliedItems(e[1])[e[2]][2]
ExitPair(e) == { ExitSource(e), ExitTarget(e) }

\* iteration order: rooms in supplied order, then each room's exits in supplied order
Earlier(e, f) == e[1] < f[1] \/ (e[1] = f[1] /\ e[2] < f[2])

FragmentsOf(kinds) == { i \in DOMAIN svg_parts : svg_parts[i].kind \in kinds }

Lines == FragmentsOf({ "line" })
Boxes == FragmentsOf({ "box" })
Indicators == FragmentsOf({ "indicator" })

LinePair(i) == { svg_parts[i].from_room, svg_parts[i].to_room }

LinesOfPair(pair) == { i \in Lines : LinePair(i) = pair }

Returned == pc = "done"

----------------------------------------------------------------------------
(* C1: every unordered pair {source, target} of identifiers has at most    *)
(* one connection line, however many exits reference it and in whichever   *)
(* direction; once the document is returned every pair referenced by an    *)
(* exit from a known room to a known room has exactly one.                 *)

C1_OneLinePerPair ==
    /\ \A i \in Lines : \A j \in Lines : i # j => LinePair(i) # LinePair(j)
    /\ Returned => \A e \in DrawableExits : Cardinality(LinesOfPair(ExitPair(e))) = 1

\* A has the exit north -> B and B the exit south -> A: one line.
C1_Witness ==
    /\ Returned
    /\ \E e \in DrawableExits : \E f \in DrawableExits :
         /\ ExitSource(e) # ExitTarget(e)
         /\ ExitDirection(e) = "north" /\ ExitDirection(f) = "south"
         /\ ExitSource(f) = ExitTarget(e) /\ ExitTarget(f) = ExitSource(e)
         /\ Cardinality(LinesOfPair(ExitPair(e))) = 1
         /\ Cardinality(Lines) = 1

----------------------------------------------------------------------------
(* C2: render_map_svg never raises; an "exits" entry that is missing or    *)
(* is not a dict is treated as the empty exit set, and the complete        *)
(* document is returned.                                                   *)

AsEmpty(rs) ==
    [ i \in DOMAIN rs |->
        IF rs[i].exits.kind = "map" THEN rs[i] ELSE [ rs[i] EXCEPT !.exits = EmptyDict ] ]

C2_MalformedExitsAsEmpty ==
    pc # "ready" =>
        /\ pc = "done"
        /\ svg_parts = render_map_svg(AsEmpty(rooms), current_room).parts

----------------------------------------------------------------------------
(* C3: a line is drawn only for an exit whose source is a supplied room    *)
(* of ROOM_POSITIONS and whose target is in ROOM_POSITIONS, so neither     *)
(* endpoint comes from the (0,0) fallback; the target need not be          *)
(* supplied: in the returned document every such exit's pair has a line.   *)

LineFromCenter(i) ==
    << svg_parts[i].x1 - FromOffset(svg_parts[i].direction)[1],
       svg_parts[i].y1 - FromOffset(svg_parts[i].direction)[2] >>

LineToCenter(i) ==
    << svg_parts[i].x2 - ToOffset(svg_parts[i].direction)[1],
       svg_parts[i].y2 - ToOffset(svg_parts[i].direction)[2] >>

C3_LinesBetweenKnownRooms ==
    /\ \A i \in Lines :
         /\ Supplied(svg_parts[i].from_room)
         /\ svg_parts[i].from_room \in Known
         /\ svg_parts[i].to_room \in Known
         /\ LineFromCenter(i) # <<0, 0>>
         /\ LineToCenter(i) # <<0, 0>>
         /\ \E e \in DrawableExits :
              /\ ExitSource(e) = svg_parts[i].from_room
              /\ ExitTarget(e) = svg_parts[i].to_room
    /\ Returned => \A e \in DrawableExits : LinesOfPair(ExitPair(e)) # {}

\* rooms {tavern: no exits, street: north -> village_gate}, current tavern
C3_Witness ==
    /\ Returned
    /\ current_room = "tavern"
    /\ rooms = << [ id |-> "tavern", exits |-> EmptyDict ],
                  [ id |-> "street",
                    exits |-> [ kind |-> "map",
                                items |-> << <<"north", "village_gate">> >> ] ] >>
    /\ Cardinality(Lines) = 1
    /\ \E i \in Lines : /\ svg_parts[i].from_room = "street"
                        /\ svg_parts[i].to_room = "village_gate"
    /\ \A b \in Boxes : svg_parts[b].room # "village_gate"
    /\ Cardinality(Boxes) = 2

----------------------------------------------------------------------------
(* C4: in svg_parts the background precedes every line, box and indicator, *)
(* every line precedes every box and every indicator, and the legend and   *)
(* the closing tag follow all of them; the returned document ends with     *)
(* the legend and the closing tag.                                         *)

Drawn == FragmentsOf({ "line", "box", "indicator" })

C4_LinesBeforeBoxes ==
    /\ \A i \in Lines : \A j \in Boxes \cup Indicators : i < j
    /\ \A i \in Drawn : \E b \in FragmentsOf({ "background" }) : b < i
    /\ \A i \in Drawn : \A l \in FragmentsOf({ "legend", "svg_close" }) : i < l
    /\ Returned =>
         /\ Len(svg_parts) >= 2
         /\ svg_parts[Len(svg_parts)].kind = "svg_close"
         /\ svg_parts[Len(svg_parts) - 1].kind = "legend"
         /\ Cardinality(FragmentsOf({ "background" })) = 1

C4_Witness ==
    /\ Returned
    /\ Lines # {}
    /\ Cardinality(Boxes) >= 2
    /\ Indicators # {}

----------------------------------------------------------------------------
(* C5: a box has the is-current styling iff its identifier equals          *)
(* current_room and the default styling otherwise; at most one box is      *)
(* styled current, none when current_room is not a supplied known room,    *)
(* and the returned document has its legend all the same.                  *)

CurrentStyle(b) ==
    /\ b.fill = "#4a9eff"
    /\ b.stroke = "#2563eb"
    /\ b.stroke_width = "3"
    /\ b.text_color = "#ffffff"
    /\ b.font_weight = "bold"

DefaultStyle(b) ==
    /\ b.fill = "#e8e8e8"
    /\ b.stroke = "#666"
    /\ b.stroke_width = "2"
    /\ b.text_color = "#333"
    /\ b.font_weight = "normal"

C5_CurrentStyling ==
    /\ \A i \in Boxes :
         IF svg_parts[i].room = current_room
         THEN CurrentStyle(svg_parts[i])
         ELSE DefaultStyle(svg_parts[i])
    /\ Cardinality({ i \in Boxes : CurrentStyle(svg_parts[i]) }) <= 1
    /\ ~(Supplied(current_room) /\ current_room \in Known) =>
         \A i \in Boxes : ~CurrentStyle(svg_parts[i])
    /\ Returned => Cardinality(FragmentsOf({ "legend" })) = 1

C5_Witness ==
    /\ Returned
    /\ Cardinality(Boxes) = 2
    /\ \E i \in Boxes : \E j \in Boxes :
         /\ CurrentStyle(svg_parts[i]) /\ svg_parts[i].room = current_room
         /\ DefaultStyle(svg_parts[j]) /\ svg_parts[j].room # current_room

----------------------------------------------------------------------------
(* C9: for every box, the number of triangular markers emitted for its     *)
(* room is the number of the keys "up" and "down" among the room's exits,  *)
(* whatever the targets of those exits.                                    *)

IndicatorsOf(room_id) == { j \in Indicators : svg_parts[j].room = room_id }

Markers(room_id) ==
    IF IndicatorsOf(room_id) = {}
    THEN 0
    ELSE Len(svg_parts[CHOOSE j \in IndicatorsOf(room_id) : TRUE].polygons)

VerticalKeys(room_id) ==
    UNION { SuppliedKeys(i) \cap { "up", "down" } :
              i \in { i \in DOMAIN rooms : rooms[i].id = room_id } }

C9_MarkersCountVerticalKeys ==
    /\ \A i \in Boxes :
         /\ Cardinality(IndicatorsOf(svg_parts[i].room)) <= 1
         /\ Markers(svg_parts[i].room) = Cardinality(VerticalKeys(svg_parts[i].room))
    /\ \A j \in Indicators : \E i \in Boxes : svg_parts[i].room = svg_parts[j].room

\* a room with both keys, one of them leading nowhere known, and a room with neither
C9_Witness ==
    /\ Returned
    /\ \E i \in Boxes :
         /\ VerticalKeys(svg_parts[i].room) = { "up", "down" }
         /\ Markers(svg_parts[i].room) = 2
         /\ \E r \in DOMAIN rooms :
              /\ rooms[r].id = svg_parts[i].room
              /\ \E j \in DOMAIN SuppliedItems(r) : SuppliedItems(r)[j][2] \notin Known
    /\ \E i \in Boxes :
         /\ VerticalKeys(svg_parts[i].room) = {}
         /\ Markers(svg_parts[i].room) = 0

----------------------------------------------------------------------------
(* C10: the line of a pair is rendered from the first exit, in iteration   *)
(* order, that references the pair: its source, target and direction; a    *)
(* later exit on the pair changes nothing.                                 *)

FirstExit(pair) ==
    CHOOSE e \in DrawableExits :
        /\ ExitPair(e) = pair
        /\ \A f \in DrawableExits : ExitPair(f) = pair /\ f # e => Earlier(e, f)

ExpectedLine(e) ==
    LET f == get_room_center(ExitSource(e))
        t == get_room_center(ExitTarget(e))
        d == ExitDirection(e)
    IN  [ kind |-> "line", from_room |-> ExitSource(e), to_room |-> ExitTarget(e),
          direction |-> d,
          x1 |-> f[1] + FromOffset(d)[1], y1 |-> f[2] + FromOffset(d)[2],
          x2 |-> t[1] + ToOffset(d)[1],   y2 |-> t[2] + ToOffset(d)[2],
          dash |-> IF d \in { "up", "down" } THEN "4,2" ELSE "" ]

C10_FirstExitWins ==
    \A i \in Lines :
        /\ \E e \in DrawableExits : ExitPair(e) = LinePair(i)
        /\ svg_parts[i] = ExpectedLine(FirstExit(LinePair(i)))

\* the pair is referenced again by the other endpoint, under another label
C10_Witness ==
    /\ Returned
    /\ \E i \in Lines : \E f \in DrawableExits :
         /\ ExitPair(f) = LinePair(i)
         /\ f # FirstExit(LinePair(i))
         /\ ExitSource(f) = svg_parts[i].to_room
         /\ ExitSource(f) # svg_parts[i].from_room
         /\ ExitDirection(f) # svg_parts[i].direction

----------------------------------------------------------------------------
(* Reading a direct call of a primitive renderer                           *)

Called(op) == pc = "done" /\ call.op = op

----------------------------------------------------------------------------
(* C6: get_room_center returns (0,0) for an identifier that is not in      *)
(* ROOM_POSITIONS, (PADDING + grid_x*CELL_SIZE, PADDING + grid_y*CELL_SIZE)*)
(* for one of level >= 0, and that coordinate shifted by (+15, +15) for    *)
(* one of level < 0, which is the centre of a ground-level room of the     *)
(* same grid cell shifted by (+15, +15): cellar = tavern + (15, 15).       *)

GroundCoordinate(id) ==
    << PADDING + ROOM_POSITIONS[id][1] * CELL_SIZE,
       PADDING + ROOM_POSITIONS[id][2] * CELL_SIZE >>

SameCell(a, b) ==
    /\ ROOM_POSITIONS[a][1] = ROOM_POSITIONS[b][1]
    /\ ROOM_POSITIONS[a][2] = ROOM_POSITIONS[b][2]

C6_RoomCenter ==
    Called("get_room_center") =>
        LET id == call.room_id
        IN  /\ id \notin Known => ret = <<0, 0>>
            /\ id \in Known /\ ROOM_POSITIONS[id][3] >= 0 => ret = GroundCoordinate(id)
            /\ id \in Known /\ ROOM_POSITIONS[id][3] < 0 =>
                 /\ ret = << GroundCoordinate(id)[1] + 15, GroundCoordinate(id)[2] + 15 >>
                 /\ \A k \in Known :
                      SameCell(k, id) /\ ROOM_POSITIONS[k][3] >= 0 =>
                        ret = << get_room_center(k)[1] + 15, get_room_center(k)[2] + 15 >>
            /\ id = "tavern" => ret = <<260, 360>>
            /\ id = "cellar" => ret = <<275, 375>>

C6_Witness ==
    /\ Called("get_room_center")
    /\ call.room_id = "cellar"
    /\ ret = << get_room_center("tavern")[1] + 15, get_room_center("tavern")[2] + 15 >>

----------------------------------------------------------------------------
(* C7: render_connection places the endpoints by the direction label       *)
(* alone: north moves the source end up and the target end down by         *)
(* ROOM_HEIGHT/2, south mirrors it, east and west do the same              *)
(* horizontally by ROOM_WIDTH/2, up and down are north and south shifted   *)
(* right by ROOM_WIDTH/2 - 10 and dashed "4,2" (not the "5,3" of an        *)
(* underground box); for these six labels each endpoint lies on the edge   *)
(* of its own room's box; any other label gives a centre-to-centre line.   *)

EdgeLabels == { "north", "south", "east", "west", "up", "down" }

\* whether point p lies on the border of the box render_room draws for room_id
OnBoxEdge(p, room_id) ==
    LET b      == render_room(room_id, << >>, FALSE, 0)
        left   == b.rect_x
        right  == b.rect_x + b.width
        top    == b.rect_y
        bottom == b.rect_y + b.height
    IN  /\ left <= p[1] /\ p[1] <= right
        /\ top <= p[2] /\ p[2] <= bottom
        /\ p[1] \in { left, right } \/ p[2] \in { top, bottom }

C7_ConnectionEndpoints ==
    Called("render_connection") =>
        LET d  == call.direction
            f  == get_room_center(call.room_id)
            t  == get_room_center(call.to_room)
            h  == ROOM_HEIGHT \div 2
            w  == ROOM_WIDTH \div 2
            s  == ROOM_WIDTH \div 2 - 10
            p1 == << ret.x1, ret.y1 >>
            p2 == << ret.x2, ret.y2 >>
        IN  /\ d = "north" => p1 = << f[1], f[2] - h >> /\ p2 = << t[1], t[2] + h >>
            /\ d = "south" => p1 = << f[1], f[2] + h >> /\ p2 = << t[1], t[2] - h >>
            /\ d = "east"  => p1 = << f[1] + w, f[2] >> /\ p2 = << t[1] - w, t[2] >>
            /\ d = "west"  => p1 = << f[1] - w, f[2] >> /\ p2 = << t[1] + w, t[2] >>
            /\ d = "up"    => p1 = << f[1] + s, f[2] - h >> /\ p2 = << t[1] + s, t[2] + h >>
            /\ d = "down"  => p1 = << f[1] + s, f[2] + h >> /\ p2 = << t[1] + s, t[2] - h >>
            /\ d \notin EdgeLabels => p1 = f /\ p2 = t
            /\ ret.dash = (IF d \in { "up", "down" } THEN "4,2" ELSE "")
            /\ ret.dash # render_room(call.room_id, << >>, FALSE, -1).dash
            /\ d \in EdgeLabels => OnBoxEdge(p1, call.room_id) /\ OnBoxEdge(p2, call.to_room)

C7_Witness ==
    /\ Called("render_connection")
    /\ call.direction = "up"
    /\ call.room_id = "cellar" /\ call.to_room = "tavern"
    /\ ret.dash = "4,2"
    /\ OnBoxEdge(<< ret.x1, ret.y1 >>, "cellar")
    /\ OnBoxEdge(<< ret.x2, ret.y2 >>, "tavern")

----------------------------------------------------------------------------
(* C8: the label of render_room is the name with every underscore          *)
(* replaced by a space, title-cased; a formatted name of more than 12      *)
(* characters is cut to its first 11 characters followed by "...", one of  *)
(* 12 or fewer is left as it is ("village_gate" gives "Village Gate").     *)

C8_Label ==
    Called("render_room") =>
        LET formatted == Title(ReplaceUnderscore(call.name))
        IN  /\ Len(formatted) > 12 =>
                 /\ Len(ret.label) = 14
                 /\ SubSeq(ret.label, 1, 11) = SubSeq(formatted, 1, 11)
                 /\ SubSeq(ret.label, 12, 14) = << ".", ".", "." >>
            /\ Len(formatted) <= 12 => ret.label = formatted
            /\ Len(formatted) = Len(call.name)
            /\ \A i \in DOMAIN call.name :
                 /\ formatted[i] # "_"
                 /\ call.name[i] = "_" => formatted[i] = " "
            /\ call.name = Spell("village_gate") =>
                 ret.label = << "V","i","l","l","a","g","e"," ","G","a","t","e" >>
            /\ call.name = << "V","I","L","L","A","G","E","_","V","I","L","L","A","G","E" >> =>
                 ret.label = << "V","i","l","l","a","g","e"," ","V","i","l",".",".","." >>
            /\ call.name = << "x","1","a","B","c" >> =>
                 ret.label = << "X","1","A","b","c" >>

C8_Witness ==
    /\ Called("render_room")
    /\ Len(call.name) = 13
    /\ Len(ret.label) = 14
    /\ SubSeq(ret.label, 12, 14) = << ".", ".", "." >>

====
